---- MODULE Spec2Model ----
(***************************************************************************)
(* A model of planetkit's cell dweller (src/cell_dweller/cell_dweller.rs),  *)
(* of its chunk geometry builder (src/globe/geometry.rs), of the encoder   *)
(* circuit and the mesh realization of the application (src/app.rs,        *)
(* src/render/system.rs) and of the obj mesh loader                        *)
(* (src/render/obj_mesh.rs).                                               *)
(*                                                                         *)
(* The modules `movement`, `globe::cell_shape` and `globe::chunk` are used *)
(* by that code but their text is not part of the sources at hand; what    *)
(* the model needs of them is written from the design document and is      *)
(* marked "from the design document" where it is defined.                  *)
(***************************************************************************)
EXTENDS Integers, Sequences, FiniteSets, TLC

VARIABLES
    \* ---- CellDweller (cell_dweller.rs:7-26)
    pos,                            \* CellPos: [x, y, z, root]
    dir,                            \* Dir: a direction slot
    last_turn_bias,                 \* TurnDir
    yaw,                            \* accumulated yaw, in units of 1/120 turn
    is_real_space_transform_dirty,  \* BOOLEAN
    panicked,                       \* an expect()/unwrap() has aborted the caller
    turn_run,                       \* history: the current run of same-sense turns
    pan_frame,                      \* the locals of the pan call in progress or just returned
    touched,                        \* history: a mutating call was made since the last clean
    \* ---- Geometry::make_geometry / make_chunk_geometry (geometry.rs:44-209)
    globe,                          \* globe.chunks(): a sequence of [origin, cells]
    vertex_data,                    \* Vec<Point3<f32>>
    index_data,                     \* Vec<Point3<usize>>
    chunk_i,                        \* position of `for chunk in globe.chunks()`
    cursor,                         \* position of the cell loops within the chunk
    pc,                             \* "idle" | "loop" | "done" | "panicked"
    last_step,                      \* history: the loop iteration just executed
    builds,                         \* make_geometry calls since the chunks changed
    mesh_repeated,                  \* history: the last call returned what the one before did
    \* ---- App and render::System (app.rs:51-83, 254-324; system.rs:81-161)
    device_recv,                    \* channel render system -> device owner: encoders queued
    render_sys_recv,                \* channel device owner -> render system: encoders queued
    main_pc,                        \* where the thread that owns the device is
    sys_pc,                         \* where the render system is
    main_encoder,                   \* `encoder` of App::render (0: none)
    sys_encoder,                    \* `encoder` of System::draw (0: none)
    lock_owner,                     \* who holds the world, the mesh repository, the projection
    visuals,                        \* the Visual component of each entity
    mesh_repo,                      \* the meshes of the MeshRepository, by handle
    main_i,                         \* position of the loop of realize_proto_meshes
    sys_i,                          \* position of the loop of draw
    realize_old,                    \* history: visuals and meshes when the loop began
    draw_paths,                     \* history: the paths the loop of the last draw took
    \* ---- make_obj_mesh (obj_mesh.rs:13-78)
    obj_set,                        \* obj_set.objects
    obj_vertex_data,                \* vertex_data: Vec<Vertex>
    index_vec,                      \* Vec<u32>
    obj_i,                          \* objects added so far
    index_object                    \* history: the object that pushed each index

dweller_vars == <<pos, dir, last_turn_bias, yaw, is_real_space_transform_dirty,
                  panicked, turn_run, pan_frame, touched>>
geom_vars == <<globe, vertex_data, index_data, chunk_i, cursor, pc, last_step,
               builds, mesh_repeated>>
app_vars == <<device_recv, render_sys_recv, main_pc, sys_pc, main_encoder,
              sys_encoder, lock_owner, visuals, mesh_repo, main_i, sys_i,
              realize_old, draw_paths>>
obj_vars == <<obj_set, obj_vertex_data, index_vec, obj_i, index_object>>
vars == <<dweller_vars, geom_vars, app_vars, obj_vars>>

----------------------------------------------------------------------------
(* Bounds of the model *)

\* cells per edge of a root face (Spec::root_resolution), both axes
RootRes == 2
\* number of root faces a position may name
NumRoots == 2
\* longest run of turns in one rotational sense that is followed
MaxTurnRun == 6
\* magnitude at which adding an edge angle to yaw no longer changes it
YawLimit == 130
\* most turns of one pan call that are counted
MaxPanTurns == 7
\* Spec::chunk_resolution is <<ChunkResXY, ChunkResXY, ChunkResZ>>
ChunkResXY == 2
ChunkResZ == 3
\* most cells of a chunk that are Air
MaxAir == 1
\* most make_geometry calls followed on unchanged chunks
MaxBuilds == 2

----------------------------------------------------------------------------
(* CellPos, Dir, TurnDir *)

TurnDir == {"Left", "Right"}

root_resolution == <<RootRes, RootRes>>

CellPos(x, y, z, root) == [x |-> x, y |-> y, z |-> z, root |-> root]

Positions == {CellPos(x, y, 0, r) : x \in 0..RootRes, y \in 0..RootRes, r \in 0..(NumRoots - 1)}

\* The six canonical direction slots of a hexagonal cell.
NumDirSlots == 6
Dirs == 0..(NumDirSlots - 1)

\* From the design document (4.1): the pentagons of a root face are its two
\* poles, x = 0 /\ y = 0 and the opposite corner.
is_pentagon(p, resolution) ==
    \/ (p.x = 0 /\ p.y = 0)
    \/ (p.x = resolution[1] /\ p.y = resolution[2])

\* From the design document (3, 4.2): a pentagon has 5 of the 6 direction slots;
\* the slot that would lead out across the missing sixth neighbour is absent.
MissingSlot(p) == IF p.x = 0 /\ p.y = 0 THEN 5 ELSE 2

DirValidAt(p, d, resolution) ==
    /\ d \in Dirs
    /\ is_pentagon(p, resolution) => d # MissingSlot(p)

\* number of edges (and of neighbours in-plane) of the cell at p
EdgeCount(p, resolution) == IF is_pentagon(p, resolution) THEN 5 ELSE 6

NextSlot(d, turn_dir) ==
    IF turn_dir = "Left" THEN (d + 1) % NumDirSlots
    ELSE (d + NumDirSlots - 1) % NumDirSlots

\* From the design document (4.2): rotate by exactly one edge angle in the
\* sense asked; at a pentagon the missing slot is stepped over, to the
\* substitute slot on its far side in the sense of the turn. Fails only when
\* the direction handed in does not exist at the cell.
turn_by_one_hex_edge(p, d, resolution, turn_dir) ==
    IF ~DirValidAt(p, d, resolution)
    THEN [ok |-> FALSE, pos |-> p, dir |-> d]
    ELSE LET n1 == NextSlot(d, turn_dir)
             n2 == IF is_pentagon(p, resolution) /\ n1 = MissingSlot(p)
                   THEN NextSlot(n1, turn_dir) ELSE n1
         IN [ok |-> TRUE, pos |-> p, dir |-> n2]

\* From the design document (4.2): the neighbour in a direction exists unless
\* the direction does not exist at the cell.
adjacent_pos_in_dir_ok(p, d) == DirValidAt(p, d, root_resolution)

----------------------------------------------------------------------------
(* CellDweller *)

\* A bug a caller of turn_by_one_hex_edge could have: the direction is turned
\* on a copy and never written back.
TurnDropsDir(p, d, turn_dir) ==
    LET r == turn_by_one_hex_edge(p, d, root_resolution, turn_dir)
    IN [panic |-> ~r.ok, pos |-> p, dir |-> d, dirty |-> TRUE]

\* A turn that lets the error of turn_by_one_hex_edge go by.
TurnSwallowsError(p, d, turn_dir) ==
    LET r == turn_by_one_hex_edge(p, d, root_resolution, turn_dir)
    IN [panic |-> FALSE, pos |-> r.pos, dir |-> r.dir, dirty |-> TRUE]

\* CellDweller::turn: the result of the call, or a panic from expect().
turn(p, d, turn_dir) ==
    LET r == turn_by_one_hex_edge(p, d, root_resolution, turn_dir)
    IN IF r.ok
       THEN [panic |-> FALSE, pos |-> r.pos, dir |-> r.dir, dirty |-> TRUE]
       ELSE [panic |-> TRUE, pos |-> p, dir |-> d, dirty |-> FALSE]

NoRun == [pos |-> CellPos(0, 0, 0, 0), dir |-> 0, sense |-> "Left", n |-> 0]

\* cell_dweller.rs:85-87: 2 * PI, a full turn, in the units of yaw
FullTurn == 120

\* the angle between two edges of the cell at p, as pan computes it
\* (cell_dweller.rs:83-88)
edge_angle(p) ==
    IF is_pentagon(p, root_resolution) THEN FullTurn \div 5 ELSE FullTurn \div 6

\* f64::abs
Abs(a) == IF a < 0 THEN -a ELSE a

\* f64 addition on yaw: exact in the range that matters, and absorbing the
\* addend once the magnitude is too large for it to register
AddYaw(a, b) ==
    IF a + b > YawLimit THEN YawLimit
    ELSE IF a + b < -YawLimit THEN -YawLimit
    ELSE a + b

\* no pan call is in progress and none has just returned
NoPan == [pc |-> "none", pan |-> 0, turn_dir |-> "Left", angle_between_edges |-> 0,
          half_angle |-> 0, old_yaw |-> 0, turns |-> 0, pentagon_tests |-> 0]

\* the amounts pan is called with: none, a nudge, the half angle of a pentagon,
\* and more than one edge angle
PanAmounts == {-31, -12, -1, 0, 1, 12, 31}

\* the amounts pan is called with where every operation is followed: none, and
\* a full turn either way
CoarsePanAmounts == {-FullTurn, 0, FullTurn}

DwellerInit ==
    /\ pos \in Positions
    /\ dir \in Dirs
    /\ DirValidAt(pos, dir, root_resolution)
    /\ last_turn_bias = "Right"
    /\ yaw = 0
    /\ is_real_space_transform_dirty = TRUE
    /\ panicked = FALSE
    /\ turn_run = NoRun
    /\ pan_frame = NoPan
    /\ touched = TRUE

\* the dweller is alive and not inside a call
Callable == ~panicked /\ pan_frame.pc # "loop"

\* A set_cell_pos that leaves the dirty flag as it is.
SetCellPosKeepsFlag(new_pos) ==
    /\ Callable
    /\ pos' = new_pos
    /\ turn_run' = NoRun
    /\ pan_frame' = NoPan
    /\ touched' = TRUE
    /\ UNCHANGED <<dir, last_turn_bias, yaw, panicked, is_real_space_transform_dirty>>
    /\ UNCHANGED <<geom_vars, app_vars, obj_vars>>

set_cell_pos(new_pos) ==
    /\ Callable
    /\ pos' = new_pos
    /\ is_real_space_transform_dirty' = TRUE
    /\ turn_run' = NoRun
    /\ pan_frame' = NoPan
    /\ touched' = TRUE
    /\ UNCHANGED <<dir, last_turn_bias, yaw, panicked>>
    /\ UNCHANGED <<geom_vars, app_vars, obj_vars>>

set_cell_transform(new_pos, new_dir, new_last_turn_bias) ==
    /\ Callable
    /\ pos' = new_pos
    /\ dir' = new_dir
    /\ last_turn_bias' = new_last_turn_bias
    /\ is_real_space_transform_dirty' = TRUE
    /\ turn_run' = NoRun
    /\ pan_frame' = NoPan
    /\ touched' = TRUE
    /\ UNCHANGED <<yaw, panicked>>
    /\ UNCHANGED <<geom_vars, app_vars, obj_vars>>

Turn(turn_dir) ==
    /\ Callable
    /\ turn_run.n > 0 /\ turn_run.sense = turn_dir => turn_run.n < MaxTurnRun
    /\ LET r == turn(pos, dir, turn_dir)
       IN /\ pos' = r.pos
          /\ dir' = r.dir
          /\ panicked' = r.panic
          /\ is_real_space_transform_dirty' =
                 IF r.dirty THEN TRUE ELSE is_real_space_transform_dirty
          /\ turn_run' =
                 IF r.panic THEN NoRun
                 ELSE IF turn_run.n > 0 /\ turn_run.sense = turn_dir
                 THEN [turn_run EXCEPT !.n = @ + 1]
                 ELSE [pos |-> pos, dir |-> dir, sense |-> turn_dir, n |-> 1]
          /\ touched' = IF r.dirty THEN TRUE ELSE touched
    /\ pan_frame' = NoPan
    /\ UNCHANGED <<last_turn_bias, yaw>>
    /\ UNCHANGED <<geom_vars, app_vars, obj_vars>>

get_real_transform_and_mark_as_clean ==
    /\ Callable
    /\ is_real_space_transform_dirty' = FALSE
    /\ panicked' = ~adjacent_pos_in_dir_ok(pos, dir)
    /\ pan_frame' = NoPan
    /\ touched' = FALSE
    /\ UNCHANGED <<pos, dir, last_turn_bias, yaw, turn_run>>
    /\ UNCHANGED <<geom_vars, app_vars, obj_vars>>

\* cell_dweller.rs:79-81: pan(0) returns at once
pan_zero ==
    /\ pan_frame' = [NoPan EXCEPT !.pc = "returned", !.old_yaw = yaw]
    /\ UNCHANGED <<pos, dir, last_turn_bias, yaw, is_real_space_transform_dirty,
                   panicked, turn_run, touched>>

\* cell_dweller.rs:82-91: the sense of the turns, the edge angle of the cell
\* the dweller is on, its half, and the amount added to yaw
pan_enter(amount) ==
    /\ yaw' = AddYaw(yaw, amount)
    /\ pan_frame' = [pc |-> "loop",
                     pan |-> amount,
                     turn_dir |-> IF amount > 0 THEN "Left" ELSE "Right",
                     angle_between_edges |-> edge_angle(pos),
                     half_angle |-> edge_angle(pos) \div 2,
                     old_yaw |-> yaw,
                     turns |-> 0,
                     pentagon_tests |-> 1]
    /\ turn_run' = NoRun
    /\ touched' = TRUE
    /\ UNCHANGED <<pos, dir, last_turn_bias, is_real_space_transform_dirty, panicked>>

\* CellDweller::pan is called (cell_dweller.rs:77-91)
pan(amount) ==
    /\ Callable
    /\ IF amount = 0 THEN pan_zero ELSE pan_enter(amount)
    /\ UNCHANGED <<geom_vars, app_vars, obj_vars>>

\* A loop that gives back half an edge angle per turn.
YawAfterTurnHalfEdge(y, turn_dir, angle) ==
    IF turn_dir = "Left" THEN AddYaw(y, -(angle \div 2)) ELSE AddYaw(y, angle \div 2)

\* the yaw after one turn of the loop in the sense turn_dir
\* (cell_dweller.rs:96 and 100)
yaw_after_turn(y, turn_dir, angle) ==
    IF turn_dir = "Left" THEN AddYaw(y, -angle) ELSE AddYaw(y, angle)

\* the turn made by the loop body has returned r
pan_turned(r) ==
    IF r.panic
    THEN /\ panicked' = TRUE
         /\ UNCHANGED <<pos, dir, yaw, is_real_space_transform_dirty, pan_frame>>
    ELSE /\ pos' = r.pos
         /\ dir' = r.dir
         /\ is_real_space_transform_dirty' = TRUE
         /\ yaw' = yaw_after_turn(yaw, pan_frame.turn_dir, pan_frame.angle_between_edges)
         /\ pan_frame' = [pan_frame EXCEPT
                              !.turns = IF @ < MaxPanTurns THEN @ + 1 ELSE @]
         /\ UNCHANGED panicked

\* cell_dweller.rs:92-103: one iteration of the while loop of pan
PanTurn ==
    /\ ~panicked
    /\ pan_frame.pc = "loop"
    /\ Abs(yaw) > pan_frame.half_angle
    /\ pan_turned(turn(pos, dir, pan_frame.turn_dir))
    /\ UNCHANGED <<last_turn_bias, turn_run, touched>>
    /\ UNCHANGED <<geom_vars, app_vars, obj_vars>>

\* cell_dweller.rs:92 and 105: the loop test fails and pan returns
PanReturn ==
    /\ ~panicked
    /\ pan_frame.pc = "loop"
    /\ ~(Abs(yaw) > pan_frame.half_angle)
    /\ is_real_space_transform_dirty' = TRUE
    /\ pan_frame' = [pan_frame EXCEPT !.pc = "returned"]
    /\ UNCHANGED <<pos, dir, last_turn_bias, yaw, panicked, turn_run, touched>>
    /\ UNCHANGED <<geom_vars, app_vars, obj_vars>>

Pan == \E amount \in PanAmounts : pan(amount)

PanCoarse == \E amount \in CoarsePanAmounts : pan(amount)

SetCellPos == \E p \in Positions : set_cell_pos(p)

SetCellTransform ==
    \E p \in Positions, d \in Dirs, b \in TurnDir : set_cell_transform(p, d, b)

TurnLeft == Turn("Left")

TurnRight == Turn("Right")

----------------------------------------------------------------------------
(* Chunks and cell shapes *)

chunk_resolution == <<ChunkResXY, ChunkResXY, ChunkResZ>>

\* Material::Air is the one material the geometry code names; every other
\* material behaves alike there.
Materials == {"Air", "Dirt"}

\* geometry.rs:93-97 and 222-226: the far ends of the cell loops
EndX(origin) == origin.x + chunk_resolution[1]
EndY(origin) == origin.y + chunk_resolution[2]
EndZ(origin) == origin.z + chunk_resolution[3] - 1

\* From the design document (3): the cells a chunk stores, its own block and one
\* more row and column on the far x and y edges.
Footprint(origin) ==
    {CellPos(x, y, z, origin.root) :
        x \in origin.x..EndX(origin), y \in origin.y..EndY(origin),
        z \in origin.z..EndZ(origin)}

\* From the design document (4.3): Chunk::cell fails outside the footprint.
chunk_cell(chunk, p) ==
    IF p \in DOMAIN chunk.cells THEN chunk.cells[p] ELSE "OutOfRange"

\* From the design document (4.4, step 3): the offsets of the 6 lateral
\* neighbours of a cell of the hexagonal grid.
NEIGHBOR_OFFSETS == << <<1, 0>>, <<0, 1>>, <<-1, 1>>, <<-1, 0>>, <<0, -1>>, <<1, -1>> >>

\* From the design document (4.4, step 2): the outline of each of the 9 cell
\* shapes, as the points around the cell centre it runs through. Points 0..11
\* are the 12 directions around the centre (the even ones the middles of the
\* edges to the 6 neighbours, the odd ones the 6 corners of the hexagon) and
\* point 12 is the centre itself.
CellShapes ==
    [FULL_HEX           |-> <<1, 3, 5, 7, 9, 11>>,
     NORTH_PORTION      |-> <<12, 0, 1, 2>>,
     SOUTH_PORTION      |-> <<12, 6, 7, 8>>,
     WEST_PORTION       |-> <<12, 2, 3, 5, 6>>,
     EAST_PORTION       |-> <<12, 8, 9, 11, 0>>,
     NORTH_WEST_PORTION |-> <<0, 1, 3, 5, 6>>,
     NORTH_EAST_PORTION |-> <<8, 9, 11, 1, 2>>,
     SOUTH_WEST_PORTION |-> <<2, 3, 5, 7, 8>>,
     SOUTH_EAST_PORTION |-> <<6, 7, 9, 11, 0>>]

top_outline_dir_offsets(shape) == CellShapes[shape]

\* Spec::cell_top_vertex and Spec::cell_bottom_vertex: the real-space point of
\* an outline point of a cell, kept symbolic.
cell_top_vertex(p, offset) == <<"top", p.x, p.y, p.z, p.root, offset>>
cell_bottom_vertex(p, offset) == <<"bottom", p.x, p.y, p.z, p.root, offset>>

----------------------------------------------------------------------------
(* Geometry::cull_cell, geometry.rs:211-275 *)

\* A slip the edge test could have: the innermost layer is not taken as an edge.
OnEdgeForgetsLowZ(origin, p) ==
    \/ p.x <= origin.x
    \/ p.y <= origin.y
    \/ p.x >= EndX(origin)
    \/ p.y >= EndY(origin)
    \/ p.z >= EndZ(origin)

\* A slip the edge test could have: the shared far column is not taken as an
\* edge.
OnEdgeForgetsFarX(origin, p) ==
    \/ p.x <= origin.x
    \/ p.y <= origin.y
    \/ p.z <= origin.z
    \/ p.y >= EndY(origin)
    \/ p.z >= EndZ(origin)

\* geometry.rs:227-233
on_edge(origin, p) ==
    \/ p.x <= origin.x
    \/ p.y <= origin.y
    \/ p.z <= origin.z
    \/ p.x >= EndX(origin)
    \/ p.y >= EndY(origin)
    \/ p.z >= EndZ(origin)

\* geometry.rs:251-257: the offsets looked at, in the order of the two loops
\* (d_z outermost), leaving out the cell itself
NeighbourOffsets ==
    SelectSeq([k \in 1..(3 * Len(NEIGHBOR_OFFSETS)) |->
                  <<NEIGHBOR_OFFSETS[((k - 1) % Len(NEIGHBOR_OFFSETS)) + 1][1],
                    NEIGHBOR_OFFSETS[((k - 1) % Len(NEIGHBOR_OFFSETS)) + 1][2],
                    ((k - 1) \div Len(NEIGHBOR_OFFSETS)) - 1>>],
              LAMBDA d : ~(d[1] = 0 /\ d[2] = 0 /\ d[3] = 0))

\* geometry.rs:259-262
NeighbourPositions(p) ==
    [k \in 1..Len(NeighbourOffsets) |->
        CellPos(p.x + NeighbourOffsets[k][1], p.y + NeighbourOffsets[k][2],
                p.z + NeighbourOffsets[k][3], p.root)]

\* geometry.rs:251-274: the loop returns at the first neighbour that is Air;
\* a lookup outside the chunk aborts it.
RECURSIVE ScanNeighbours(_, _, _)
ScanNeighbours(chunk, ns, k) ==
    IF k > Len(ns) THEN "cull"
    ELSE IF chunk_cell(chunk, ns[k]) = "OutOfRange" THEN "panic"
    ELSE IF chunk_cell(chunk, ns[k]) = "Air" THEN "keep"
    ELSE ScanNeighbours(chunk, ns, k + 1)

\* A cull_cell that never culls.
CullNever(chunk, p) == "keep"

\* Geometry::cull_cell: "cull" for true, "keep" for false.
cull_cell(chunk, p) ==
    IF on_edge(chunk.origin, p) THEN "keep"
    ELSE ScanNeighbours(chunk, NeighbourPositions(p), 1)

----------------------------------------------------------------------------
(* Geometry::make_chunk_geometry, geometry.rs:84-209 *)

\* Loops that stop short of the shared far row and column.
CellRangeExclusive(origin) ==
    LET nx == EndX(origin) - origin.x
        ny == EndY(origin) - origin.y
        nz == EndZ(origin) - origin.z + 1
    IN [k \in 1..(nx * ny * nz) |->
           CellPos(origin.x + ((k - 1) % nx),
                   origin.y + (((k - 1) \div nx) % ny),
                   origin.z + ((k - 1) \div (nx * ny)),
                   origin.root)]

\* geometry.rs:98-107: the cells of a chunk in the order of the three loops
CellRange(origin) ==
    LET nx == EndX(origin) - origin.x + 1
        ny == EndY(origin) - origin.y + 1
        nz == EndZ(origin) - origin.z + 1
    IN [k \in 1..(nx * ny * nz) |->
           CellPos(origin.x + ((k - 1) % nx),
                   origin.y + (((k - 1) \div nx) % ny),
                   origin.z + ((k - 1) \div (nx * ny)),
                   origin.root)]

\* geometry.rs:128-146
select_cell_shape(origin, p) ==
    LET end_x == EndX(origin)
        end_y == EndY(origin)
    IN IF p.x = 0 /\ p.y = 0 THEN "NORTH_PORTION"
       ELSE IF p.x = end_x /\ p.y = end_y THEN "SOUTH_PORTION"
       ELSE IF p.x = end_x /\ p.y = 0 THEN "WEST_PORTION"
       ELSE IF p.x = 0 /\ p.y = end_y THEN "EAST_PORTION"
       ELSE IF p.y = 0 THEN "NORTH_WEST_PORTION"
       ELSE IF p.x = 0 THEN "NORTH_EAST_PORTION"
       ELSE IF p.x = end_x THEN "SOUTH_WEST_PORTION"
       ELSE IF p.y = end_y THEN "SOUTH_EAST_PORTION"
       ELSE "FULL_HEX"

\* geometry.rs:150-157 and 174-181
top_vertices(p, offsets) == [i \in 1..Len(offsets) |-> cell_top_vertex(p, offsets[i])]

\* geometry.rs:187-194
bottom_vertices(p, offsets) == [i \in 1..Len(offsets) |-> cell_bottom_vertex(p, offsets[i])]

\* A fan whose loop runs one short.
TopFanOneShort(first_top_vertex_index, n) ==
    [i \in 1..(n - 3) |->
        <<first_top_vertex_index, first_top_vertex_index + i, first_top_vertex_index + i + 1>>]

\* geometry.rs:161-167: `for i in 1..(offsets.len() - 1)`
top_triangles(first_top_vertex_index, n) ==
    [i \in 1..(n - 2) |->
        <<first_top_vertex_index, first_top_vertex_index + i, first_top_vertex_index + i + 1>>]

\* Sides that do not wrap from the last outline point back to the first.
SidesNoWrap(first_side_top_vertex_index, first_side_bottom_vertex_index, n) ==
    [k \in 1..(2 * (n - 1)) |->
        LET ab_i == (k - 1) \div 2
            cd_i == ab_i + 1
            a_i == first_side_top_vertex_index + ab_i
            b_i == first_side_bottom_vertex_index + ab_i
            c_i == first_side_bottom_vertex_index + cd_i
            d_i == first_side_top_vertex_index + cd_i
        IN IF k % 2 = 1 THEN <<a_i, b_i, d_i>> ELSE <<d_i, b_i, c_i>>]

\* geometry.rs:197-205
side_triangles(first_side_top_vertex_index, first_side_bottom_vertex_index, n) ==
    [k \in 1..(2 * n) |->
        LET ab_i == (k - 1) \div 2
            cd_i == (ab_i + 1) % n
            a_i == first_side_top_vertex_index + ab_i
            b_i == first_side_bottom_vertex_index + ab_i
            c_i == first_side_bottom_vertex_index + cd_i
            d_i == first_side_top_vertex_index + cd_i
        IN IF k % 2 = 1 THEN <<a_i, b_i, d_i>> ELSE <<d_i, b_i, c_i>>]

\* An emitted cell whose indices count from the start of the cell, not of the
\* buffer.
EmitCellResetsOffsets(origin, p, vd, id) ==
    LET offsets == top_outline_dir_offsets(select_cell_shape(origin, p))
        n == Len(offsets)
    IN [vertex_data |->
            vd \o (top_vertices(p, offsets) \o top_vertices(p, offsets)
                      \o bottom_vertices(p, offsets)),
        index_data |->
            id \o (top_triangles(0, n) \o side_triangles(n, n + n, n)),
        panic |-> FALSE]

\* geometry.rs:122-205: what one emitted cell appends to the two buffers
emit_cell(origin, p, vd, id) ==
    LET first_top_vertex_index == Len(vd)
        offsets == top_outline_dir_offsets(select_cell_shape(origin, p))
        n == Len(offsets)
        first_side_top_vertex_index == first_top_vertex_index + n
        first_side_bottom_vertex_index == first_side_top_vertex_index + n
    IN [vertex_data |->
            vd \o (top_vertices(p, offsets) \o top_vertices(p, offsets)
                      \o bottom_vertices(p, offsets)),
        index_data |->
            id \o (top_triangles(first_top_vertex_index, n)
                      \o side_triangles(first_side_top_vertex_index,
                                        first_side_bottom_vertex_index, n)),
        panic |-> FALSE]

\* the iteration goes on to the next cell with the buffers as they are
Skip(vd, id) == [vertex_data |-> vd, index_data |-> id, panic |-> FALSE]

\* a lookup outside the chunk aborts the call
Abort(vd, id) == [vertex_data |-> vd, index_data |-> id, panic |-> TRUE]

\* A loop body that forgets to skip air.
DrawCellDrawsAir(chunk, p, vd, id, material) ==
    IF material = "OutOfRange" THEN Abort(vd, id)
    ELSE emit_cell(chunk.origin, p, vd, id)

\* geometry.rs:113-205: the cell is looked up, and drawn unless it is Air
draw_cell(chunk, p, vd, id, material) ==
    IF material = "OutOfRange" THEN Abort(vd, id)
    ELSE IF material = "Air" THEN Skip(vd, id)
    ELSE emit_cell(chunk.origin, p, vd, id)

\* geometry.rs:109-113: a culled cell is passed over
cull_or_draw(chunk, p, vd, id, culled) ==
    IF culled = "panic" THEN Abort(vd, id)
    ELSE IF culled = "cull" THEN Skip(vd, id)
    ELSE draw_cell(chunk, p, vd, id, chunk_cell(chunk, p))

\* geometry.rs:101-205: one iteration of the innermost loop
process_cell(chunk, p, vd, id) == cull_or_draw(chunk, p, vd, id, cull_cell(chunk, p))

\* geometry.rs:98-208: the loops of make_chunk_geometry over the cells of range,
\* from cell k on, on the buffers of b; a failed lookup ends them
RECURSIVE make_chunk_geometry_from(_, _, _, _)
make_chunk_geometry_from(chunk, range, k, b) ==
    IF b.panic \/ k > Len(range) THEN b
    ELSE make_chunk_geometry_from(chunk, range, k + 1,
             process_cell(chunk, range[k], b.vertex_data, b.index_data))

\* Geometry::make_chunk_geometry, geometry.rs:84-209
make_chunk_geometry(chunk, vd, id) ==
    make_chunk_geometry_from(chunk, CellRange(chunk.origin), 1,
        [vertex_data |-> vd, index_data |-> id, panic |-> FALSE])

\* geometry.rs:53-60: the chunks of the globe in turn, on one pair of buffers
RECURSIVE make_geometry_from(_, _, _)
make_geometry_from(chunks, i, b) ==
    IF b.panic \/ i > Len(chunks) THEN b
    ELSE make_geometry_from(chunks, i + 1,
             make_chunk_geometry(chunks[i], b.vertex_data, b.index_data))

\* A make_geometry that keeps its buffers between calls and does not clear them.
MakeGeometryKeepsBuffers(chunks) ==
    make_geometry_from(chunks, 1,
        [vertex_data |-> vertex_data, index_data |-> index_data, panic |-> FALSE])

\* Geometry::make_geometry, geometry.rs:44-66: both buffers start empty
make_geometry(chunks) ==
    make_geometry_from(chunks, 1,
        [vertex_data |-> <<>>, index_data |-> <<>>, panic |-> FALSE])

\* geometry.rs:40: TriMesh::new(Arc::new(vertices), Arc::new(indices), None, None)
TriMesh(r) == [vertices |-> r.vertex_data, indices |-> r.index_data]

\* A collision mesh built from the chunks taken in the opposite order.
BuildCollisionMeshBackwards(chunks) ==
    TriMesh(make_geometry([i \in 1..Len(chunks) |-> chunks[Len(chunks) + 1 - i]]))

\* Geometry::build_collision_mesh, geometry.rs:35-41
build_collision_mesh(chunks) == TriMesh(make_geometry(chunks))

----------------------------------------------------------------------------
(* The globes the model starts from *)

\* the subsets of S with at most k elements
RECURSIVE SmallSubsets(_, _)
SmallSubsets(S, k) ==
    IF k = 0 THEN {{}}
    ELSE LET prev == SmallSubsets(S, k - 1)
         IN prev \cup {A \cup {x} : A \in prev, x \in S}

\* A chunk at the corner of its root face, and one away from it in x, y and z.
Origins ==
    {CellPos(0, 0, 0, 0), CellPos(ChunkResXY, ChunkResXY, ChunkResZ, 0)}

MkChunk(origin, air) ==
    [origin |-> origin,
     cells |-> [p \in Footprint(origin) |-> IF p \in air THEN "Air" ELSE "Dirt"]]

ChunksAt(o) == {MkChunk(o, air) : air \in SmallSubsets(Footprint(o), MaxAir)}

\* globes of two solid chunks, in either order
TwoChunkGlobes ==
    LET pairs == {<<a, b>> \in Origins \X Origins : a # b}
    IN {<<MkChunk(ab[1], {}), MkChunk(ab[2], {})>> : ab \in pairs}

Globes == {<<c>> : c \in UNION {ChunksAt(o) : o \in Origins}} \cup TwoChunkGlobes

AirCount(chunk) == Cardinality({p \in DOMAIN chunk.cells : chunk.cells[p] = "Air"})

NoStep == [chunk_i |-> 0, cursor |-> 0, pos |-> CellPos(0, 0, 0, 0),
           first_vertex |-> 0, first_index |-> 0, prev_first_vertex |-> -1]

GeomInit ==
    /\ globe \in Globes
    /\ vertex_data = <<>>
    /\ index_data = <<>>
    /\ chunk_i = 0
    /\ cursor = 0
    /\ pc = "idle"
    /\ last_step = NoStep
    /\ builds = 0
    /\ mesh_repeated = FALSE

\* the dweller, while the geometry is followed
DwellerIdle ==
    /\ pos = CellPos(0, 0, 0, 0)
    /\ dir = 0
    /\ last_turn_bias = "Right"
    /\ yaw = 0
    /\ is_real_space_transform_dirty = TRUE
    /\ panicked = FALSE
    /\ turn_run = NoRun
    /\ pan_frame = NoPan
    /\ touched = TRUE

\* the geometry, while the dweller is followed
GeomIdle ==
    /\ globe = <<>>
    /\ vertex_data = <<>>
    /\ index_data = <<>>
    /\ chunk_i = 0
    /\ cursor = 0
    /\ pc = "idle"
    /\ last_step = NoStep
    /\ builds = 0
    /\ mesh_repeated = FALSE

----------------------------------------------------------------------------
(* make_geometry, one loop iteration at a time *)

\* geometry.rs:49-53: the buffers are made and the loops are entered
BeginMakeGeometry ==
    /\ pc = "idle"
    /\ vertex_data' = <<>>
    /\ index_data' = <<>>
    /\ chunk_i' = 1
    /\ cursor' = 1
    /\ pc' = "loop"
    /\ UNCHANGED <<globe, last_step, builds, mesh_repeated>>
    /\ UNCHANGED <<dweller_vars, app_vars, obj_vars>>

\* geometry.rs:98-100 and 53: the loops step to the next cell, to the next
\* chunk, or make_geometry returns
StepLoops(len, r) ==
    IF r.panic
    THEN pc' = "panicked" /\ UNCHANGED <<chunk_i, cursor>>
    ELSE IF cursor < len
    THEN pc' = "loop" /\ cursor' = cursor + 1 /\ UNCHANGED chunk_i
    ELSE IF chunk_i < Len(globe)
    THEN pc' = "loop" /\ cursor' = 1 /\ chunk_i' = chunk_i + 1
    ELSE pc' = "done" /\ UNCHANGED <<chunk_i, cursor>>

\* the iteration on cell p has left the buffers of r
StepCell(p, len, r) ==
    /\ vertex_data' = r.vertex_data
    /\ index_data' = r.index_data
    /\ last_step' = [chunk_i |-> chunk_i, cursor |-> cursor, pos |-> p,
                     first_vertex |-> Len(vertex_data),
                     first_index |-> Len(index_data),
                     prev_first_vertex |->
                         IF Len(vertex_data) > last_step.first_vertex
                         THEN last_step.first_vertex
                         ELSE last_step.prev_first_vertex]
    /\ StepLoops(len, r)

\* geometry.rs:100-206: one iteration of the innermost loop of the chunk, whose
\* cells in loop order are range
ProcessCellIn(chunk, range) ==
    StepCell(range[cursor], Len(range),
             process_cell(chunk, range[cursor], vertex_data, index_data))

ProcessCell ==
    /\ pc = "loop"
    /\ ProcessCellIn(globe[chunk_i], CellRange(globe[chunk_i].origin))
    /\ UNCHANGED <<globe, builds, mesh_repeated>>
    /\ UNCHANGED <<dweller_vars, app_vars, obj_vars>>

----------------------------------------------------------------------------
(* make_geometry as one step, and the chunks changing between calls *)

\* the buffers r returned by a call become the caller's
ReturnGeometry(r) ==
    /\ vertex_data' = r.vertex_data
    /\ index_data' = r.index_data
    /\ pc' = IF r.panic THEN "panicked" ELSE "done"
    /\ mesh_repeated' =
           (pc = "done" /\ r.vertex_data = vertex_data /\ r.index_data = index_data)

\* Geometry::make_geometry, geometry.rs:44-66, as build_collision_mesh calls it
MakeGeometry ==
    /\ pc \in {"idle", "done"}
    /\ builds < MaxBuilds
    /\ ReturnGeometry(make_geometry(globe))
    /\ builds' = builds + 1
    /\ UNCHANGED <<globe, chunk_i, cursor, last_step>>
    /\ UNCHANGED <<dweller_vars, app_vars, obj_vars>>

\* A cell of a chunk is mined out between two calls (the design document, 3
\* and 5: chunks are edited by another party, never during a call, and a mesh
\* is of no use once the cells it was made from have changed).
MineCell(i, p) ==
    /\ pc \in {"idle", "done"}
    /\ globe[i].cells[p] # "Air"
    /\ AirCount(globe[i]) < MaxAir
    /\ globe' = [globe EXCEPT ![i].cells[p] = "Air"]
    /\ vertex_data' = <<>>
    /\ index_data' = <<>>
    /\ pc' = "idle"
    /\ builds' = 0
    /\ mesh_repeated' = FALSE
    /\ UNCHANGED <<chunk_i, cursor, last_step>>
    /\ UNCHANGED <<dweller_vars, app_vars, obj_vars>>

Mine == \E i \in 1..Len(globe) : \E p \in DOMAIN globe[i].cells : MineCell(i, p)

----------------------------------------------------------------------------
(* The application: the encoder circuit, the locks and mesh realization *)

\* entities that carry a Visual (and a Spatial); a join visits them in order
NumVisuals == 2
Entities == 1..NumVisuals

\* most meshes the repository comes to hold
MaxMeshes == 3

\* enc1 and enc2 of App::new (app.rs:75-76)
Encoders == {1, 2}

\* the proto-meshes a system hands to a Visual
ProtoMeshes == {"chunk", "chunk_mined"}

\* Mesh::new of the vertexes and indexes of a proto-mesh (app.rs:307-313),
\* and the meshes made from assets by App::new
Mesh(made_from) == [made_from |-> made_from]

\* the handle of the snowman mesh, the second mesh App::new creates
\* (app.rs:137-147)
snowman_mesh == 2

\* a handle that was not issued by this repository
foreign_handle == MaxMeshes + 1

\* the handles that set_mesh_handle is called with from outside
ClientHandles == {snowman_mesh, foreign_handle}

\* Visual::new_empty (app.rs:148); mesh_handle 0 stands for None
new_empty == [proto_mesh |-> "None", mesh_handle |-> 0]

\* MeshRepository, from its uses in app.rs and system.rs: handles are the
\* positions of the meshes
has_mesh(repo, mesh_handle) == mesh_handle \in 1..Len(repo)

add_mesh(repo, mesh) == [repo |-> Append(repo, mesh), mesh_handle |-> Len(repo) + 1]

replace_mesh(repo, mesh_handle, mesh) == [repo EXCEPT ![mesh_handle] = mesh]

Locks == {"world", "mesh_repo", "projection"}

release(owner, who) == [l \in Locks |-> IF owner[l] = who THEN "free" ELSE owner[l]]

\* App::new: one encoder in each direction, the two asset meshes, the dweller's
\* Visual with the snowman mesh (app.rs:54-83, 137-149)
AppInit ==
    /\ device_recv = <<1>>
    /\ render_sys_recv = <<2>>
    /\ main_pc = "idle"
    /\ sys_pc = "idle"
    /\ main_encoder = 0
    /\ sys_encoder = 0
    /\ lock_owner = [l \in Locks |-> "free"]
    /\ visuals = [e \in Entities |->
                    IF e = 1 THEN [new_empty EXCEPT !.mesh_handle = snowman_mesh]
                             ELSE new_empty]
    /\ mesh_repo = <<Mesh("axes"), Mesh("snowman")>>
    /\ main_i = 0
    /\ sys_i = 0
    /\ realize_old = [visuals |-> <<>>, mesh_repo |-> <<>>]
    /\ draw_paths = {}

\* ---- the thread that owns the device

\* App::render, up to try_recv (app.rs:254-265)
RenderRecv ==
    /\ main_pc = "idle"
    /\ IF device_recv = <<>>
         THEN UNCHANGED <<device_recv, main_pc, main_encoder>>
         ELSE /\ main_encoder' = Head(device_recv)
              /\ device_recv' = Tail(device_recv)
              /\ main_pc' = "render"
    /\ UNCHANGED <<render_sys_recv, sys_pc, sys_encoder, lock_owner, visuals,
                   mesh_repo, main_i, sys_i, realize_old, draw_paths>>
    /\ UNCHANGED <<dweller_vars, geom_vars, obj_vars>>

\* App::render, flush and send (app.rs:267-275)
RenderSend ==
    /\ main_pc = "render"
    /\ render_sys_recv' = Append(render_sys_recv, main_encoder)
    /\ main_encoder' = 0
    /\ main_pc' = "idle"
    /\ UNCHANGED <<device_recv, sys_pc, sys_encoder, lock_owner, visuals,
                   mesh_repo, main_i, sys_i, realize_old, draw_paths>>
    /\ UNCHANGED <<dweller_vars, geom_vars, obj_vars>>

\* App::update: dispatch the systems, then go on to realize_proto_meshes
\* (app.rs:277-282)
Update ==
    /\ main_pc = "idle"
    /\ sys_pc' = IF sys_pc = "idle" THEN "ready" ELSE sys_pc
    /\ main_pc' = "realize_1"
    /\ UNCHANGED <<device_recv, render_sys_recv, main_encoder, sys_encoder,
                   lock_owner, visuals, mesh_repo, main_i, sys_i, realize_old,
                   draw_paths>>
    /\ UNCHANGED <<dweller_vars, geom_vars, obj_vars>>

\* A realize_proto_meshes that locks the mesh repository before the world.
RealizeRepoFirst == <<"mesh_repo", "world">>

\* the order in which realize_proto_meshes acquires (app.rs:294-295)
RealizeLockOrder == <<"world", "mesh_repo">>

\* realize_proto_meshes: acquire the next of its two locks, waiting for it
\* (app.rs:294-296)
RealizeAcquire ==
    /\ main_pc \in {"realize_1", "realize_2"}
    /\ LET l == RealizeLockOrder[IF main_pc = "realize_1" THEN 1 ELSE 2]
       IN /\ lock_owner[l] = "free"
          /\ lock_owner' = [lock_owner EXCEPT ![l] = "main"]
    /\ IF main_pc = "realize_1"
         THEN /\ main_pc' = "realize_2"
              /\ UNCHANGED <<main_i, realize_old>>
         ELSE /\ main_pc' = "realize_loop"
              /\ main_i' = 1
              /\ realize_old' = [visuals |-> visuals, mesh_repo |-> mesh_repo]
    /\ UNCHANGED <<device_recv, render_sys_recv, sys_pc, main_encoder,
                   sys_encoder, visuals, mesh_repo, sys_i, draw_paths>>
    /\ UNCHANGED <<dweller_vars, geom_vars, obj_vars>>

\* A loop body that adds a mesh for every proto-mesh, handle or not.
RealizeAlwaysAdds(visual, repo) ==
    IF visual.proto_mesh = "None"
      THEN [visual |-> visual, repo |-> repo]
      ELSE LET r == add_mesh(repo, Mesh(visual.proto_mesh))
           IN [visual |-> [proto_mesh |-> "None", mesh_handle |-> r.mesh_handle],
               repo |-> r.repo]

\* the body of the loop of realize_proto_meshes (app.rs:298-323)
realize_visual(visual, repo) ==
    IF visual.proto_mesh = "None"
      THEN [visual |-> visual, repo |-> repo]
      ELSE LET mesh == Mesh(visual.proto_mesh)
           IN IF visual.mesh_handle # 0
                THEN [visual |-> [visual EXCEPT !.proto_mesh = "None"],
                      repo |-> replace_mesh(repo, visual.mesh_handle, mesh)]
                ELSE LET r == add_mesh(repo, mesh)
                     IN [visual |-> [proto_mesh |-> "None",
                                     mesh_handle |-> r.mesh_handle],
                         repo |-> r.repo]

\* realize_proto_meshes: one iteration of `for visual in (&mut visuals).iter()`
RealizeVisual ==
    /\ main_pc = "realize_loop"
    /\ main_i <= NumVisuals
    /\ LET r == realize_visual(visuals[main_i], mesh_repo)
       IN /\ visuals' = [visuals EXCEPT ![main_i] = r.visual]
          /\ mesh_repo' = r.repo
    /\ main_i' = main_i + 1
    /\ UNCHANGED <<device_recv, render_sys_recv, main_pc, sys_pc, main_encoder,
                   sys_encoder, lock_owner, sys_i, realize_old, draw_paths>>
    /\ UNCHANGED <<dweller_vars, geom_vars, obj_vars>>

\* realize_proto_meshes returns and its guards are dropped (app.rs:324)
RealizeReturn ==
    /\ main_pc = "realize_loop"
    /\ main_i > NumVisuals
    /\ lock_owner' = release(lock_owner, "main")
    /\ main_pc' = "idle"
    /\ main_i' = 0
    /\ realize_old' = [visuals |-> <<>>, mesh_repo |-> <<>>]
    /\ UNCHANGED <<device_recv, render_sys_recv, sys_pc, main_encoder,
                   sys_encoder, visuals, mesh_repo, sys_i, draw_paths>>
    /\ UNCHANGED <<dweller_vars, geom_vars, obj_vars>>

\* ---- the render system

\* System::run: fetch the storages of the world (system.rs:156-159)
SysRun ==
    /\ sys_pc = "ready"
    /\ lock_owner["world"] = "free"
    /\ lock_owner' = [lock_owner EXCEPT !["world"] = "sys"]
    /\ sys_pc' = "draw"
    /\ draw_paths' = {}
    /\ UNCHANGED <<device_recv, render_sys_recv, main_pc, main_encoder,
                   sys_encoder, visuals, mesh_repo, main_i, sys_i, realize_old>>
    /\ UNCHANGED <<dweller_vars, geom_vars, obj_vars>>

\* System::draw, up to try_recv and the clears (system.rs:81-95); with no
\* encoder waiting draw returns, and so does run
DrawRecv ==
    /\ sys_pc = "draw"
    /\ IF render_sys_recv = <<>>
         THEN /\ sys_pc' = "idle"
              /\ lock_owner' = release(lock_owner, "sys")
              /\ UNCHANGED <<render_sys_recv, sys_encoder>>
         ELSE /\ sys_encoder' = Head(render_sys_recv)
              /\ render_sys_recv' = Tail(render_sys_recv)
              /\ sys_pc' = "lock_projection"
              /\ UNCHANGED lock_owner
    /\ UNCHANGED <<device_recv, main_pc, main_encoder, visuals, mesh_repo,
                   main_i, sys_i, realize_old, draw_paths>>
    /\ UNCHANGED <<dweller_vars, geom_vars, obj_vars>>

\* System::draw: lock the projection, then the mesh repository, waiting for
\* each (system.rs:98-99)
DrawLock ==
    /\ sys_pc \in {"lock_projection", "lock_mesh_repo"}
    /\ LET l == IF sys_pc = "lock_projection" THEN "projection" ELSE "mesh_repo"
       IN /\ lock_owner[l] = "free"
          /\ lock_owner' = [lock_owner EXCEPT ![l] = "sys"]
    /\ IF sys_pc = "lock_projection"
         THEN sys_pc' = "lock_mesh_repo" /\ UNCHANGED sys_i
         ELSE sys_pc' = "draw_loop" /\ sys_i' = 1
    /\ UNCHANGED <<device_recv, render_sys_recv, main_pc, main_encoder,
                   sys_encoder, visuals, mesh_repo, main_i, realize_old,
                   draw_paths>>
    /\ UNCHANGED <<dweller_vars, geom_vars, obj_vars>>

\* A loop body that returns from draw when the mesh does not exist.
DrawReturnsOnMissingMesh(visual, repo) ==
    IF visual.mesh_handle = 0 THEN [path |-> "no_handle", continues |-> TRUE]
    ELSE IF ~has_mesh(repo, visual.mesh_handle)
      THEN [path |-> "nonexistent", continues |-> FALSE]
      ELSE [path |-> "drawn", continues |-> TRUE]

\* the body of the loop of draw: the path taken, and whether the loop goes on
\* (system.rs:103-146)
draw_visual(visual, repo) ==
    IF visual.mesh_handle = 0 THEN [path |-> "no_handle", continues |-> TRUE]
    ELSE IF ~has_mesh(repo, visual.mesh_handle)
      THEN [path |-> "nonexistent", continues |-> TRUE]
      ELSE [path |-> "drawn", continues |-> TRUE]

\* System::draw: one iteration of `for (v, s) in (&visuals, &spatials).iter()`
DrawVisual ==
    /\ sys_pc = "draw_loop"
    /\ sys_i <= NumVisuals
    /\ LET r == draw_visual(visuals[sys_i], mesh_repo)
       IN /\ draw_paths' = draw_paths \cup {r.path}
          /\ IF r.continues
               THEN /\ sys_i' = sys_i + 1
                    /\ UNCHANGED <<sys_pc, sys_encoder, lock_owner>>
               ELSE /\ sys_i' = 0
                    /\ sys_pc' = "idle"
                    /\ sys_encoder' = 0
                    /\ lock_owner' = release(lock_owner, "sys")
    /\ UNCHANGED <<device_recv, render_sys_recv, main_pc, main_encoder,
                   visuals, mesh_repo, main_i, realize_old>>
    /\ UNCHANGED <<dweller_vars, geom_vars, obj_vars>>

\* System::draw: send the encoder on; draw and run return and the guards and
\* storages are dropped (system.rs:148-149, 161-166)
DrawSend ==
    /\ sys_pc = "draw_loop"
    /\ sys_i > NumVisuals
    /\ device_recv' = Append(device_recv, sys_encoder)
    /\ sys_encoder' = 0
    /\ sys_i' = 0
    /\ sys_pc' = "idle"
    /\ lock_owner' = release(lock_owner, "sys")
    /\ UNCHANGED <<render_sys_recv, main_pc, main_encoder, visuals, mesh_repo,
                   main_i, realize_old, draw_paths>>
    /\ UNCHANGED <<dweller_vars, geom_vars, obj_vars>>

\* ---- what other code does to the Visuals between frames

\* visuals with a proto-mesh and no handle: each will take a new handle
PendingAdds(vs) == Cardinality({e \in Entities :
                       vs[e].proto_mesh # "None" /\ vs[e].mesh_handle = 0})

\* a system gives a Visual a proto-mesh (the field read at app.rs:302)
set_proto_mesh(e, proto_mesh) ==
    /\ lock_owner["world"] = "free"
    /\ visuals[e].proto_mesh = "None"
    /\ \/ has_mesh(mesh_repo, visuals[e].mesh_handle)
       \/ /\ visuals[e].mesh_handle = 0
          /\ Len(mesh_repo) + PendingAdds(visuals) < MaxMeshes
    /\ visuals' = [visuals EXCEPT ![e].proto_mesh = proto_mesh]
    /\ UNCHANGED <<device_recv, render_sys_recv, main_pc, sys_pc, main_encoder,
                   sys_encoder, lock_owner, mesh_repo, main_i, sys_i,
                   realize_old, draw_paths>>
    /\ UNCHANGED <<dweller_vars, geom_vars, obj_vars>>

\* Visual::set_mesh_handle, as App::new calls it (app.rs:149)
set_mesh_handle(e, mesh_handle) ==
    /\ main_pc = "idle"
    /\ lock_owner["world"] = "free"
    /\ visuals[e].proto_mesh = "None"
    /\ visuals' = [visuals EXCEPT ![e].mesh_handle = mesh_handle]
    /\ UNCHANGED <<device_recv, render_sys_recv, main_pc, sys_pc, main_encoder,
                   sys_encoder, lock_owner, mesh_repo, main_i, sys_i,
                   realize_old, draw_paths>>
    /\ UNCHANGED <<dweller_vars, geom_vars, obj_vars>>

SetProtoMesh == \E e \in Entities : \E p \in ProtoMeshes : set_proto_mesh(e, p)

SetMeshHandle == \E e \in Entities : \E h \in ClientHandles : set_mesh_handle(e, h)

----------------------------------------------------------------------------
(* The obj mesh loader *)

\* most objects in an obj file
MaxObjects == 2

\* the vertices an object may have
VertexCounts == {3, 4}

\* mtl_set.materials, by name (obj_mesh.rs:37-38)
mtl_materials == {"red", "blue"}

\* the triangles an object with n vertices may have; as the obj parser hands
\* them over, the indices of a shape count within the vertices of its object,
\* from 0
TrianglesOf(n) == {<<0, 1, 2>>, <<n - 1, 1, 0>>}

\* the geometries of an object: none, or one with a triangle and perhaps a
\* material
GeometriesOf(n) ==
    {<<>>} \cup {<<[material_name |-> m, shapes |-> <<t>>]>> :
                    m \in mtl_materials \cup {"None"}, t \in TrianglesOf(n)}

\* obj::Object: the number of its vertices and its geometry
Objects ==
    UNION {{[vertices |-> n, geometry |-> g] : g \in GeometriesOf(n)} :
             n \in VertexCounts}

\* obj_set.objects of the files make_obj_mesh may be given
ObjSets == UNION {[1..len -> Objects] : len \in 1..MaxObjects}

\* Vertex::new(position of vertex i of object k, GRAY) (obj_mesh.rs:49-50);
\* the position is kept as the pair of object and vertex
Vertex(k, i) == [a_pos |-> <<k, i>>, a_color |-> "GRAY"]

\* obj_mesh.rs:48-51
push_vertices(k, object, vd) ==
    vd \o [i \in 1..object.vertices |-> Vertex(k, i - 1)]

\* obj_mesh.rs:60-68: the colour of the material, written to the vertices at
\* the positions i_vi, j_vi and k_vi of vertex_data
paint(vd, shape, material_name) ==
    IF material_name = "None" THEN vd
    ELSE [v \in 1..Len(vd) |->
            IF v \in {shape[1] + 1, shape[2] + 1, shape[3] + 1}
              THEN [vd[v] EXCEPT !.a_color = material_name]
              ELSE vd[v]]

\* obj_mesh.rs:53-76 for the shapes of one geometry, from shape n on
RECURSIVE add_shapes(_, _, _, _)
add_shapes(g, n, vd, iv) ==
    IF n > Len(g.shapes) THEN [vertex_data |-> vd, index_vec |-> iv]
    ELSE add_shapes(g, n + 1, paint(vd, g.shapes[n], g.material_name),
                    iv \o g.shapes[n])

\* obj_mesh.rs:52-77 for the geometries of one object, from geometry n on
RECURSIVE add_geometries(_, _, _, _)
add_geometries(object, n, vd, iv) ==
    IF n > Len(object.geometry) THEN [vertex_data |-> vd, index_vec |-> iv]
    ELSE LET r == add_shapes(object.geometry[n], 1, vd, iv)
         IN add_geometries(object, n + 1, r.vertex_data, r.index_vec)

\* add_object (obj_mesh.rs:46-78) for object number k
add_object(k, object, vd, iv) ==
    add_geometries(object, 1, push_vertices(k, object, vd), iv)

ObjInit ==
    /\ obj_set \in ObjSets
    /\ obj_vertex_data = <<>>
    /\ index_vec = <<>>
    /\ obj_i = 0
    /\ index_object = <<>>

\* the obj loader, while other code is followed
ObjIdle ==
    /\ obj_set = <<>>
    /\ obj_vertex_data = <<>>
    /\ index_vec = <<>>
    /\ obj_i = 0
    /\ index_object = <<>>

\* make_obj_mesh: one iteration of `for object in &obj_set.objects`
\* (obj_mesh.rs:39-41)
AddObject ==
    /\ obj_i < Len(obj_set)
    /\ LET r == add_object(obj_i + 1, obj_set[obj_i + 1], obj_vertex_data, index_vec)
       IN /\ obj_vertex_data' = r.vertex_data
          /\ index_vec' = r.index_vec
          /\ index_object' = index_object \o
                [t \in 1..(Len(r.index_vec) - Len(index_vec)) |-> obj_i + 1]
    /\ obj_i' = obj_i + 1
    /\ UNCHANGED obj_set
    /\ UNCHANGED <<dweller_vars, geom_vars, app_vars>>

----------------------------------------------------------------------------
(* Specifications *)

\* the cell dweller
Init == DwellerInit /\ GeomIdle /\ AppInit /\ ObjIdle
Next ==
    \/ SetCellPos
    \/ SetCellTransform
    \/ TurnLeft
    \/ TurnRight
    \/ get_real_transform_and_mark_as_clean
    \/ PanCoarse
    \/ PanTurn
    \/ PanReturn
Spec == Init /\ [][Next]_vars

\* the cell dweller steered by pan and moved between pans; a call of pan that
\* has begun goes on running, so its loop is taken whenever it can be
InitPan == DwellerInit /\ GeomIdle /\ AppInit /\ ObjIdle
NextPan == SetCellPos \/ Pan \/ PanTurn \/ PanReturn
SpecPan == InitPan /\ [][NextPan]_vars /\ WF_vars(PanTurn) /\ WF_vars(PanReturn)

\* make_geometry, loop iteration by loop iteration
InitGeom == DwellerIdle /\ GeomInit /\ AppInit /\ ObjIdle
NextGeom == BeginMakeGeometry \/ ProcessCell
SpecGeom == InitGeom /\ [][NextGeom]_vars

\* the device owner and the render system, step by step, and the changes
\* other code makes to the Visuals
InitApp == DwellerIdle /\ GeomIdle /\ AppInit /\ ObjIdle
NextApp ==
    \/ RenderRecv
    \/ RenderSend
    \/ Update
    \/ RealizeAcquire
    \/ RealizeVisual
    \/ RealizeReturn
    \/ SysRun
    \/ DrawRecv
    \/ DrawLock
    \/ DrawVisual
    \/ DrawSend
    \/ SetProtoMesh
    \/ SetMeshHandle
SpecApp == InitApp /\ [][NextApp]_vars

\* make_obj_mesh, object by object
InitObj == DwellerIdle /\ GeomIdle /\ AppInit /\ ObjInit
NextObj == AddObject
SpecObj == InitObj /\ [][NextObj]_vars

\* make_geometry call by call, on chunks that start solid and are mined out
InitMesh ==
    /\ DwellerIdle /\ GeomInit /\ Len(globe) = 1 /\ AirCount(globe[1]) = 0
    /\ AppInit /\ ObjIdle
NextMesh == MakeGeometry \/ Mine
SpecMesh == InitMesh /\ [][NextMesh]_vars

----------------------------------------------------------------------------
(* Properties of the cell dweller *)

\* the dweller is where, and faces as, it did when the current run of turns began
BackAtRunStart == pos = turn_run.pos /\ dir = turn_run.dir

PanReturned == pan_frame.pc = "returned" /\ ~panicked

\* half the edge angle of the cell the dweller is on
HalfEdge == edge_angle(pos) \div 2

\* C14: pan residual. When pan returns, whatever the amount and the yaw it
\* started from, |yaw| is at most half the edge angle of the cell the dweller
\* is on: a fifth of a full turn on a pentagon, a sixth on any other cell.
C14_PanResidual == PanReturned => Abs(yaw) <= HalfEdge

\* a call of pan with an amount other than 0 is in its loop or has returned
InPanCall == pan_frame.pc \in {"loop", "returned"} /\ pan_frame.pan # 0

\* C15: pan recomputes its threshold. Within one call of pan the pentagon
\* predicate is consulted on the dweller's position before the loop and again
\* after every turn, so that the edge angle and the half-edge threshold in use
\* are never older than the last turn.
C15_ThresholdRecomputed ==
    (InPanCall /\ pan_frame.turns < MaxPanTurns) =>
        pan_frame.pentagon_tests = pan_frame.turns + 1

\* the step is a call of turn that returned
TurnCompleted == turn_run'.n > 0 /\ turn_run' # turn_run /\ ~panicked'

\* the step is an iteration of the loop of pan whose turn returned
PanTurnCompleted == pan_frame.pc = "loop" /\ pan_frame'.pc = "loop" /\ ~panicked'

\* the step is a call of get_real_transform_and_mark_as_clean that returned
TransformReturned == ~touched' /\ pan_frame'.pc = "none" /\ ~panicked'

\* the traversal functions fail on the dweller's position and direction
TraversalFails ==
    /\ ~turn_by_one_hex_edge(pos, dir, root_resolution, "Left").ok
    /\ ~turn_by_one_hex_edge(pos, dir, root_resolution, "Right").ok
    /\ ~adjacent_pos_in_dir_ok(pos, dir)

\* C17: traversal failure is fatal. While turn_by_one_hex_edge and
\* adjacent_pos_in_dir fail for the dweller's (pos, dir), no call of turn, no
\* turn inside pan and no computation of the real-space transform returns: the
\* call panics; and after a panic nothing more happens.
C17_TraversalFailureFatal ==
    [][/\ (~panicked /\ TraversalFails) =>
              ~(TurnCompleted \/ PanTurnCompleted \/ TransformReturned)
       /\ ~panicked]_vars

\* a turn made by the loop of pan has failed and the call has panicked
C17_Witness ==
    /\ panicked
    /\ pan_frame.pc = "loop"
    /\ TraversalFails

\* C18: pan terminates. Every call of pan that has entered its loop leaves it
\* again, by returning or by a panic, after finitely many turns.
C18_PanTerminates == (pan_frame.pc = "loop") ~> (pan_frame.pc # "loop" \/ panicked)

\* the yaw that the accounting of C19 gives for the call of pan in progress
AccountedYaw ==
    IF pan_frame.pan > 0
      THEN pan_frame.old_yaw + pan_frame.pan - pan_frame.turns * edge_angle(pos)
      ELSE pan_frame.old_yaw + pan_frame.pan + pan_frame.turns * edge_angle(pos)

\* the sense in which pan(p) has to turn
SenseOf(p) == IF p > 0 THEN "Left" ELSE "Right"

\* the step is the call pan(0)
PanZeroStep == pan_frame'.pc = "returned" /\ pan_frame'.pan = 0

\* C19: pan accounting. pan(0) changes none of yaw, pos, dir and the dirty
\* flag; every turn made by pan(p) is a Left turn for p > 0 and a Right turn
\* for p < 0; and after k turns of a call the yaw is old yaw + p - k * edge
\* angle for p > 0 and old yaw + p + k * edge angle for p < 0 (as long as the
\* yaw and the count of turns are below the bounds of the model).
C19_PanAccounting ==
    /\ []((InPanCall /\ pan_frame.turns < MaxPanTurns /\ Abs(yaw) < YawLimit)
             => yaw = AccountedYaw)
    /\ [][PanZeroStep =>
            UNCHANGED <<yaw, pos, dir, is_real_space_transform_dirty>>]_vars
    /\ [][PanTurnCompleted =>
            LET r == turn(pos, dir, SenseOf(pan_frame.pan))
            IN pos' = r.pos /\ dir' = r.dir]_vars

\* a call pan(p) with p > 0 has returned after two turns
C19_Witness ==
    /\ PanReturned
    /\ pan_frame.pan > 0
    /\ pan_frame.turns = 2
    /\ yaw = pan_frame.old_yaw + pan_frame.pan - 2 * edge_angle(pos)

\* the step is a call of get_real_transform_and_mark_as_clean
MarkAsCleanStep == ~touched' /\ pan_frame' = NoPan

----------------------------------------------------------------------------
(* Properties of the application *)

\* the encoder a side holds, as a sequence
Held(encoder) == IF encoder = 0 THEN <<>> ELSE <<encoder>>

\* the encoders queued in either direction and held by either side
InCircuit == device_recv \o render_sys_recv \o Held(main_encoder) \o Held(sys_encoder)

\* the step is try_recv of System::draw finding nothing
DrawFindsNone == sys_pc = "draw" /\ render_sys_recv = <<>> /\ sys_pc' # "draw"

\* C21: the encoder circuit. Under every interleaving of the steps of
\* App::render and System::draw the encoders queued and held are the two of
\* App::new, each once; a side that finds no encoder waiting returns without
\* taking or sending one; and neither try_recv ever has to wait.
C21_EncoderCircuit ==
    /\ [](/\ Len(InCircuit) = 2
          /\ \A enc \in Encoders : \E i \in 1..Len(InCircuit) : InCircuit[i] = enc)
    /\ []((main_pc = "idle" => ENABLED RenderRecv) /\ (sys_pc = "draw" => ENABLED DrawRecv))
    /\ [][(main_pc = "idle" /\ device_recv = <<>>) =>
            (main_pc' # "render" /\ main_encoder' = 0)]_vars
    /\ [][DrawFindsNone =>
            (sys_pc' = "idle" /\ sys_encoder' = 0 /\ UNCHANGED device_recv)]_vars

\* a draw whose loop met a Visual without a handle and a Visual whose mesh
\* does not exist has sent its encoder on, and both encoders wait for the
\* device owner
C21_Witness ==
    /\ sys_pc = "idle"
    /\ {"no_handle", "nonexistent"} \subseteq draw_paths
    /\ Len(device_recv) = 2
    /\ render_sys_recv = <<>>

\* the lock realize_proto_meshes is about to acquire
MainWaitsFor ==
    IF main_pc = "realize_1" THEN RealizeLockOrder[1]
    ELSE IF main_pc = "realize_2" THEN RealizeLockOrder[2]
    ELSE "none"

\* the lock the render system is about to acquire
SysWaitsFor ==
    IF sys_pc = "ready" THEN "world"
    ELSE IF sys_pc = "lock_projection" THEN "projection"
    ELSE IF sys_pc = "lock_mesh_repo" THEN "mesh_repo"
    ELSE "none"

\* the thread has to wait: the lock it is about to acquire is held
Blocked(waits_for) == waits_for # "none" /\ lock_owner[waits_for] # "free"

\* C22: lock order. Whoever holds the mesh repository holds the world too
\* (both realize_proto_meshes and the render system acquire the world first);
\* no state is reached in which realize_proto_meshes holds the mesh repository
\* and waits for the world while the render system holds the world and waits
\* for the mesh repository; and the two are never both waiting.
C22_LockOrder ==
    /\ lock_owner["mesh_repo"] # "free" => lock_owner["world"] = lock_owner["mesh_repo"]
    /\ ~(/\ lock_owner["mesh_repo"] = "main" /\ MainWaitsFor = "world"
         /\ lock_owner["world"] = "sys" /\ SysWaitsFor = "mesh_repo")
    /\ ~(Blocked(MainWaitsFor) /\ Blocked(SysWaitsFor))

\* realize_proto_meshes waits for the world while the render system, inside
\* draw, holds the world and the mesh repository
C22_Witness ==
    /\ main_pc = "realize_1"
    /\ sys_pc = "draw_loop"
    /\ lock_owner["world"] = "sys"
    /\ lock_owner["mesh_repo"] = "sys"
    /\ Blocked(MainWaitsFor)

\* the loop of realize_proto_meshes is over and the function is about to return
RealizeDone == main_pc = "realize_loop" /\ main_i > NumVisuals

\* the Visual had a proto-mesh when realize_proto_meshes began
HadProto(e) == realize_old.visuals[e].proto_mesh # "None"

\* the mesh handle the Visual had when realize_proto_meshes began
OldHandle(e) == realize_old.visuals[e].mesh_handle

\* the mesh behind a handle
MeshBehind(repo, mesh_handle) ==
    IF has_mesh(repo, mesh_handle) THEN repo[mesh_handle] ELSE Mesh("none")

\* the Visuals that had a proto-mesh and the handle h
Realizers(h) == {e \in Entities : HadProto(e) /\ OldHandle(e) = h}

\* what the claim says of a Visual that had a proto-mesh: it has lost it and
\* has a handle; the one it had, with a mesh made from a proto-mesh behind it,
\* or else a handle the repository did not have before
Realized(e) ==
    /\ visuals[e].proto_mesh = "None"
    /\ visuals[e].mesh_handle # 0
    /\ has_mesh(mesh_repo, visuals[e].mesh_handle)
    /\ IF OldHandle(e) # 0
         THEN /\ visuals[e].mesh_handle = OldHandle(e)
              /\ \E r \in Realizers(OldHandle(e)) :
                    mesh_repo[OldHandle(e)] = Mesh(realize_old.visuals[r].proto_mesh)
         ELSE /\ ~has_mesh(realize_old.mesh_repo, visuals[e].mesh_handle)
              /\ mesh_repo[visuals[e].mesh_handle] = Mesh(realize_old.visuals[e].proto_mesh)
              /\ \A o \in Entities \ {e} :
                    visuals[o].mesh_handle # visuals[e].mesh_handle

\* no handle is made for a Visual that had one: the repository grows by one
\* mesh for each Visual that had a proto-mesh and no handle
OnlyNeededHandles ==
    Len(mesh_repo) = Len(realize_old.mesh_repo) + PendingAdds(realize_old.visuals)

\* the mesh behind the handle of the Visual is the one that was there
MeshKept(e) ==
    MeshBehind(mesh_repo, visuals[e].mesh_handle)
        = MeshBehind(realize_old.mesh_repo, visuals[e].mesh_handle)

----------------------------------------------------------------------------
(* Properties of the obj mesh loader *)

\* the object whose vertex is at position i (from 0) of vertex_data
ObjectOfVertex(i) == obj_vertex_data[i + 1].a_pos[1]

\* the object has a geometry of that material
HasMaterial(object, material_name) ==
    \E n \in 1..Len(object.geometry) : object.geometry[n].material_name = material_name

\* C24: obj mesh indices. After any number of add_object calls every index in
\* index_vec is smaller than the length of vertex_data and refers to a vertex
\* that was pushed for the object that pushed the index; and a vertex has the
\* colour of a material only if its own object has a geometry of that material.
C24_ObjIndices ==
    /\ \A t \in 1..Len(index_vec) :
          /\ index_vec[t] < Len(obj_vertex_data)
          /\ ObjectOfVertex(index_vec[t]) = index_object[t]
    /\ \A v \in 1..Len(obj_vertex_data) :
          obj_vertex_data[v].a_color # "GRAY" =>
              HasMaterial(obj_set[ObjectOfVertex(v - 1)], obj_vertex_data[v].a_color)

----------------------------------------------------------------------------
(* Properties of the geometry builder *)

\* a loop iteration has run; it ran on this chunk and this cell
Stepped == last_step.chunk_i > 0 /\ pc # "panicked"
LastChunk == globe[last_step.chunk_i]
LastOrigin == LastChunk.origin
LastCell == last_step.pos
LastMaterial == chunk_cell(LastChunk, LastCell)

\* what that iteration appended to the two buffers
LastVertices == SubSeq(vertex_data, last_step.first_vertex + 1, Len(vertex_data))
LastIndices == SubSeq(index_data, last_step.first_index + 1, Len(index_data))
LastEmitted == Len(LastVertices) > 0 \/ Len(LastIndices) > 0

\* the material at an offset from a cell of a chunk
MaterialAt(chunk, p, d_x, d_y, d_z) ==
    chunk_cell(chunk, CellPos(p.x + d_x, p.y + d_y, p.z + d_z, p.root))

\* the six lateral offsets of the hexagonal grid, and the two vertical ones
LateralOffsets == {<<1, 0>>, <<0, 1>>, <<-1, 1>>, <<-1, 0>>, <<0, -1>>, <<1, -1>>}

\* the cell is on the outer edge of the chunk at origin
OuterEdge(origin, p) ==
    \/ p.x <= origin.x
    \/ p.y <= origin.y
    \/ p.z <= origin.z
    \/ p.x >= origin.x + chunk_resolution[1]
    \/ p.y >= origin.y + chunk_resolution[2]
    \/ p.z >= origin.z + chunk_resolution[3] - 1

\* none of the 6 lateral neighbours and neither vertical neighbour is Air
NoAirAmongEight(chunk, p) ==
    /\ \A o \in LateralOffsets : MaterialAt(chunk, p, o[1], o[2], 0) # "Air"
    /\ MaterialAt(chunk, p, 0, 0, 1) # "Air"
    /\ MaterialAt(chunk, p, 0, 0, -1) # "Air"

\* none of the cells at the 6 lateral offsets in the layers z - 1, z and z + 1
\* is Air
NoAirAmongEighteen(chunk, p) ==
    \A o \in LateralOffsets : \A d_z \in {-1, 0, 1} :
        MaterialAt(chunk, p, o[1], o[2], d_z) # "Air"

\* C2: boundary conservatism. cull_cell returns false for every cell on the
\* outer edge of a chunk, whatever the cells around it hold; and a loop
\* iteration on a cell of the outer edge that is not Air emits geometry.
C2_BoundaryConservatism ==
    /\ \A i \in 1..Len(globe) : \A p \in DOMAIN globe[i].cells :
           OuterEdge(globe[i].origin, p) => cull_cell(globe[i], p) = "keep"
    /\ (Stepped /\ OuterEdge(LastOrigin, LastCell) /\ LastMaterial # "Air")
           => LastEmitted

\* a cell of the outer edge that is not Air, with no Air anywhere in the chunk,
\* has been processed and has emitted geometry
C2_Witness ==
    /\ Stepped
    /\ OuterEdge(LastOrigin, LastCell)
    /\ LastMaterial = "Dirt"
    /\ AirCount(LastChunk) = 0
    /\ LastEmitted

C4_SkippedOnlyIfNoAirNeighbour ==
    (/\ Stepped
     /\ LastMaterial # "Air"
     /\ ~LastEmitted)
        => NoAirAmongEight(LastChunk, LastCell)

\* the outline the last iteration used, read off the vertices it pushed
UsedOutline ==
    [i \in 1..(Len(LastVertices) \div 3) |-> LastVertices[i][6]]

\* the template the chunk's own boundary calls for: corners first, then edges
ShapeByChunkBoundary(origin, p) ==
    LET min_x == origin.x
        min_y == origin.y
        max_x == origin.x + chunk_resolution[1]
        max_y == origin.y + chunk_resolution[2]
    IN IF p.x = min_x /\ p.y = min_y THEN "NORTH_PORTION"
       ELSE IF p.x = max_x /\ p.y = max_y THEN "SOUTH_PORTION"
       ELSE IF p.x = max_x /\ p.y = min_y THEN "WEST_PORTION"
       ELSE IF p.x = min_x /\ p.y = max_y THEN "EAST_PORTION"
       ELSE IF p.y = min_y THEN "NORTH_WEST_PORTION"
       ELSE IF p.x = min_x THEN "NORTH_EAST_PORTION"
       ELSE IF p.x = max_x THEN "SOUTH_WEST_PORTION"
       ELSE IF p.y = max_y THEN "SOUTH_EAST_PORTION"
       ELSE "FULL_HEX"

CornerShapes == {"NORTH_PORTION", "SOUTH_PORTION", "WEST_PORTION", "EAST_PORTION"}

OnXBoundary(origin, p) == p.x = origin.x \/ p.x = origin.x + chunk_resolution[1]
OnYBoundary(origin, p) == p.y = origin.y \/ p.y = origin.y + chunk_resolution[2]

\* C6: the template is chosen against the chunk's own boundary, whatever its
\* origin: the both-min corner template at x = origin.x /\ y = origin.y, a
\* partial template at x = origin.x or y = origin.y, and FULL_HEX only for a
\* cell on none of the four x/y boundaries of its chunk.
C6_ShapeRelativeToChunk ==
    (Stepped /\ LastEmitted) =>
        /\ (LastCell.x = LastOrigin.x /\ LastCell.y = LastOrigin.y)
               => UsedOutline = CellShapes["NORTH_PORTION"]
        /\ (LastCell.x = LastOrigin.x \/ LastCell.y = LastOrigin.y)
               => UsedOutline # CellShapes["FULL_HEX"]
        /\ UsedOutline = CellShapes["FULL_HEX"]
               => ~OnXBoundary(LastOrigin, LastCell) /\ ~OnYBoundary(LastOrigin, LastCell)

\* C7: every emitted cell gets the one template the order of tests gives it,
\* corners before single edges before FULL_HEX; so a cell on two boundaries of
\* its chunk gets a corner template.
C7_ShapePrecedence ==
    (Stepped /\ LastEmitted) =>
        /\ \E sh \in DOMAIN CellShapes : UsedOutline = CellShapes[sh]
        /\ UsedOutline = CellShapes[ShapeByChunkBoundary(LastOrigin, LastCell)]
        /\ (OnXBoundary(LastOrigin, LastCell) /\ OnYBoundary(LastOrigin, LastCell))
               => \E sh \in CornerShapes : UsedOutline = CellShapes[sh]

\* the cell the next loop iteration is about to process
CellAtCursor == CellRange(globe[chunk_i].origin)[cursor]

\* C8: a loop iteration on a cell whose material is Air leaves vertex_data and
\* index_data as they were.
C8_AirNoGeometry ==
    [][(pc = "loop" /\ chunk_cell(globe[chunk_i], CellAtCursor) = "Air")
           => (vertex_data' = vertex_data /\ index_data' = index_data)]_vars

\* an Air cell on the outer edge of its chunk, which cull_cell never hides, has
\* been processed
C8_Witness ==
    /\ Stepped
    /\ LastMaterial = "Air"
    /\ OuterEdge(LastOrigin, LastCell)
    /\ pc \in {"loop", "done"}

\* the outline of the template selected for the last cell
LastOffsets == top_outline_dir_offsets(select_cell_shape(LastOrigin, LastCell))

\* C9: the top face of an emitted cell with an outline of n offsets is n
\* vertices in outline order, then exactly n - 2 triangles (f, f + i, f + i + 1),
\* i = 1 .. n - 2, where f is the length of vertex_data before the cell.
C9_TopFace ==
    (Stepped /\ LastEmitted) =>
        LET f == last_step.first_vertex
            n == Len(LastOffsets)
        IN /\ Len(LastVertices) >= n
           /\ \A i \in 1..n : LastVertices[i] = cell_top_vertex(LastCell, LastOffsets[i])
           /\ Len(LastIndices) >= n - 2
           /\ \A i \in 1..(n - 2) : LastIndices[i] = <<f, f + i, f + i + 1>>
           /\ Cardinality({k \in 1..Len(LastIndices) : LastIndices[k][1] = f}) = n - 2

\* a cell with the outline of a full hexagon has been emitted
C9_Witness ==
    /\ Stepped
    /\ LastEmitted
    /\ ~OnXBoundary(LastOrigin, LastCell)
    /\ ~OnYBoundary(LastOrigin, LastCell)
    /\ Len(LastOffsets) = 6

\* C10: after the top ring come n more top vertices and n bottom vertices, 3n
\* in all, and for each outline position i, with j = (i + 1) mod n, the two
\* triangles (top_i, bottom_i, top_j) and (top_j, bottom_i, bottom_j): 2n side
\* triangles, the last pair wrapping back to the first position.
C10_SideFaces ==
    (Stepped /\ LastEmitted) =>
        LET f == last_step.first_vertex
            n == Len(LastOffsets)
            top(i) == f + n + i
            bottom(i) == f + 2 * n + i
        IN /\ Len(LastVertices) = 3 * n
           /\ \A i \in 1..n :
                  /\ LastVertices[n + i] = cell_top_vertex(LastCell, LastOffsets[i])
                  /\ LastVertices[2 * n + i] = cell_bottom_vertex(LastCell, LastOffsets[i])
           /\ Len(LastIndices) = (n - 2) + 2 * n
           /\ \A i \in 0..(n - 1) :
                  LET j == (i + 1) % n
                  IN /\ LastIndices[(n - 2) + 2 * i + 1] = <<top(i), bottom(i), top(j)>>
                     /\ LastIndices[(n - 2) + 2 * i + 2] = <<top(j), bottom(i), bottom(j)>>

\* a corner cell, whose outline has 4 offsets, has been emitted after other cells
C10_Witness ==
    /\ Stepped
    /\ LastEmitted
    /\ Len(LastOffsets) = 4
    /\ last_step.first_vertex > 0

\* a call of make_chunk_geometry has just returned: the loops have either
\* finished the last chunk or moved on to the first cell of the next one
ChunkFinished == pc = "done" \/ (pc = "loop" /\ chunk_i > 1 /\ cursor = 1)

\* the vertex positions an index triple names
Corners(triple) == {triple[1], triple[2], triple[3]}

\* C11: index offsets run on across the buffers and are never reset per cell.
\* After each call of make_chunk_geometry on the shared buffers every index in
\* index_data is below the length of vertex_data; every index emitted for a cell
\* lies in the block of 3n vertices emitted for that cell; and that block starts
\* strictly after the start of the block of the cell emitted before it.
C11_IndexOffsets ==
    /\ ChunkFinished =>
           \A k \in 1..Len(index_data) :
               Corners(index_data[k]) \subseteq 0..(Len(vertex_data) - 1)
    /\ (Stepped /\ LastEmitted) =>
           /\ Len(LastVertices) = 3 * Len(LastOffsets)
           /\ \A k \in 1..Len(LastIndices) :
                  Corners(LastIndices[k]) \subseteq
                      last_step.first_vertex..(last_step.first_vertex + 3 * Len(LastOffsets) - 1)
           /\ last_step.prev_first_vertex < last_step.first_vertex

\* a cell of the second chunk of a globe has been emitted after the cells of
\* the first, and its indices start where the first chunk's vertices end
C11_Witness ==
    /\ Stepped
    /\ LastEmitted
    /\ last_step.chunk_i = 2
    /\ last_step.prev_first_vertex >= 0
    /\ last_step.first_vertex > 0
    /\ \E k \in 1..Len(LastIndices) : last_step.first_vertex \in Corners(LastIndices[k])

\* the place of a cell among the cells of its chunk taken layer by layer (z),
\* within a layer row by row (y), within a row by x, the far row and column
\* included
RankInChunk(origin, p) ==
    LET nx == chunk_resolution[1] + 1
        ny == chunk_resolution[2] + 1
    IN 1 + (p.x - origin.x) + nx * (p.y - origin.y) + nx * ny * (p.z - origin.z)

CellsPerChunk == (chunk_resolution[1] + 1) * (chunk_resolution[2] + 1) * chunk_resolution[3]

\* C12: make_chunk_geometry considers the cells with x in origin.x ..
\* origin.x + chunk_resolution[0], y in origin.y .. origin.y + chunk_resolution[1]
\* and z in origin.z .. origin.z + chunk_resolution[2] - 1, with the root of the
\* origin, each exactly once, in z-major, then y, then x order, and no other:
\* the k-th iteration is on the k-th cell of that order, and the call returns
\* after the last of them.
C12_CellRange ==
    /\ Stepped =>
           /\ LastCell.root = LastOrigin.root
           /\ LastCell.x \in LastOrigin.x..(LastOrigin.x + chunk_resolution[1])
           /\ LastCell.y \in LastOrigin.y..(LastOrigin.y + chunk_resolution[2])
           /\ LastCell.z \in LastOrigin.z..(LastOrigin.z + chunk_resolution[3] - 1)
           /\ last_step.cursor = RankInChunk(LastOrigin, LastCell)
    /\ ChunkFinished => last_step.cursor = CellsPerChunk

\* the call has returned after an iteration on the cell at the far x, y and z
\* end of a chunk away from the root's corner
C12_Witness ==
    /\ pc = "done"
    /\ LastOrigin.x > 0
    /\ LastCell = CellPos(LastOrigin.x + chunk_resolution[1],
                          LastOrigin.y + chunk_resolution[2],
                          LastOrigin.z + chunk_resolution[3] - 1,
                          LastOrigin.root)

\* the address is in the block a chunk at origin stores
InStoredRange(origin, p) ==
    /\ p.root = origin.root
    /\ p.x \in origin.x..(origin.x + chunk_resolution[1])
    /\ p.y \in origin.y..(origin.y + chunk_resolution[2])
    /\ p.z \in origin.z..(origin.z + chunk_resolution[3] - 1)

\* the address is one the chunk can answer for
Stored(chunk, p) == InStoredRange(chunk.origin, p) /\ p \in DOMAIN chunk.cells

\* C13: every address passed to chunk.cell during a build, the cell of the
\* iteration and, when the cell is not on the edge, each neighbour cull_cell
\* reads, lies in the footprint the chunk stores; so no build of a fully
\* populated chunk ends in the fatal out-of-range lookup.
C13_LookupsInFootprint ==
    /\ pc # "panicked"
    /\ last_step.chunk_i > 0 =>
           /\ Stored(LastChunk, LastCell)
           /\ ~on_edge(LastOrigin, LastCell) =>
                  \A k \in 1..Len(NeighbourPositions(LastCell)) :
                      Stored(LastChunk, NeighbourPositions(LastCell)[k])

\* in a chunk away from the corner of its root, a cell off the edge has had all
\* its neighbours read and found solid
C13_Witness ==
    /\ Stepped
    /\ LastOrigin.x > 0
    /\ ~on_edge(LastOrigin, LastCell)
    /\ cull_cell(LastChunk, LastCell) = "cull"

\* C16: the collision mesh is the render generation. build_collision_mesh
\* makes its triangle soup of exactly the vertex and index lists that the
\* loops of make_chunk_geometry leave when run over every chunk of the globe, in
\* the order of globe.chunks(), on one pair of buffers that starts empty.
C16_CollisionMeshIsRenderMesh ==
    pc = "done" =>
        build_collision_mesh(globe) = [vertices |-> vertex_data, indices |-> index_data]

\* the loops have run over a globe of two chunks and left a mesh
C16_Witness ==
    /\ pc = "done"
    /\ Len(globe) = 2
    /\ Len(index_data) > 0
    /\ build_collision_mesh(globe).indices = index_data

====
